---- MODULE Spec2Model ----
(***************************************************************************)
(* gocached: an in-memory key/value store with a write-ahead log           *)
(* (data.wal) and gob snapshots (data.dat).  The model follows             *)
(* src/main.go: the Redis struct, Operation and its helpers, the           *)
(* connection loop, saveSnapshot, loadSnapshot and Close.                  *)
(*                                                                         *)
(* Text is a sequence of atoms: a word (a run of non-blank characters) or  *)
(* one of the blank atoms SP, LF, CRLF.  A file is a sequence of atoms     *)
(* (data.wal) or of cells (data.dat).                                      *)
(***************************************************************************)
EXTENDS Integers, Sequences, FiniteSets, TLC

\* ------------------------------------------------------------------ bounds
\* live requests accepted over one behaviour
MaxOps == 2
\* process crashes over one behaviour
MaxCrashes == 1
\* runs of saveSnapshot over one behaviour
MaxSnaps == 1
\* cells the gob decoder's buffered reader may have read past the payload
ReadAhead == 1
\* records in a data.wal handed to the replay loop
MaxRecs == 3
\* text lines that follow the gob payload in a data.dat found at startup
MaxTail == 2

\* ------------------------------------------------------------------- text
SP == " "
LF == "\n"
CRLF == "\r\n"

\* unicode.IsSpace on the atoms of the model (strings.Fields)
IsSpace(a) == a \in {SP, LF, CRLF, "\t"}

\* strings.ReplaceAll on one-atom patterns
ReplaceAll(s, old, new) == [i \in DOMAIN s |-> IF s[i] = old THEN new ELSE s[i]]

\* strings.Fields: the maximal runs of non-blank atoms
Fields(s) == SelectSeq(s, LAMBDA a : ~IsSpace(a))

\* strings.ToUpper on the command words a client may send
ToUpper(w) ==
    CASE w = "set" -> "SET"
      [] w = "get" -> "GET"
      [] w = "del" -> "DEL"
      [] w = "hmset" -> "HMSET"
      [] w = "ping" -> "PING"
      [] OTHER -> w

RECURSIVE Join(_)
\* strings.Join(value, " ")
Join(v) ==
    IF Len(v) = 0 THEN <<>>
    ELSE IF Len(v) = 1 THEN <<v[1]>>
    ELSE <<v[1], SP>> \o Join(Tail(v))

RECURSIVE SplitLines(_, _)
\* bufio.ScanLines over the rest of a stream: cur is the line being read
SplitLines(s, cur) ==
    IF Len(s) = 0 THEN (IF Len(cur) = 0 THEN <<>> ELSE <<cur>>)
    ELSE IF Head(s) \in {LF, CRLF} THEN <<cur>> \o SplitLines(Tail(s), <<>>)
    ELSE SplitLines(Tail(s), Append(cur, Head(s)))

\* the tokens a bufio.Scanner yields for a stream
ScanLines(s) == SplitLines(s, <<>>)

\* ------------------------------------------------------------ RedisCommand
NoConn == "noconn"

RedisCommand(command, key, value, conn) ==
    [command |-> command, key |-> key, value |-> value, conn |-> conn]

\* (cmd *RedisCommand) parse(query)
parse(query, conn) ==
    LET q1 == ReplaceAll(query, CRLF, SP)
        q2 == ReplaceAll(q1, LF, SP)
        args == Fields(q2)
        command == ToUpper(args[1])
        fail == [err |-> TRUE, cmd |-> RedisCommand("", "", <<>>, conn)]
        ok(key, value) == [err |-> FALSE, cmd |-> RedisCommand(command, key, value, conn)]
    IN  IF Len(args) < 1 THEN fail
        ELSE CASE command = "PING" -> ok("", <<>>)
               [] command \in {"GET", "DEL", "SUBSCRIBE"} ->
                     IF Len(args) < 2 THEN fail ELSE ok(args[2], <<>>)
               [] command = "SET" ->
                     IF Len(args) < 3 THEN fail ELSE ok(args[2], <<args[3]>>)
               [] command = "HMSET" ->
                     IF Len(args) < 3 THEN fail ELSE ok(args[2], SubSeq(args, 3, Len(args)))
               [] command = "PUBLISH" ->
                     IF Len(args) < 3 THEN fail ELSE ok(args[2], SubSeq(args, 3, Len(args)))
               [] OTHER -> fail

\* ------------------------------------------------------------------ Store
\* make(map[string][]string)
EmptyDb == [k \in {} |-> <<>>]

\* c.db[key] = value
setAppends(d, key, value) ==
    [k \in DOMAIN d \cup {key} |->
        IF k = key THEN (IF key \in DOMAIN d THEN d[key] \o value ELSE value) ELSE d[k]]

set(d, key, value) ==
    [k \in DOMAIN d \cup {key} |-> IF k = key THEN value ELSE d[k]]

\* return c.db[key]  (nil for an absent key)
get(d, key) == IF key \in DOMAIN d THEN d[key] ELSE <<>>

\* delete(c.db, key)
delToggles(d, key) ==
    IF key \in DOMAIN d THEN [k \in DOMAIN d \ {key} |-> d[k]]
    ELSE [k \in DOMAIN d \cup {key} |-> IF k = key THEN <<>> ELSE d[k]]

del(d, key) == [k \in DOMAIN d \ {key} |-> d[k]]

\* ---------------------------------------------------------------- the WAL
writeCommands == {"SET", "HMSET", "DEL"}

\* walEnabled && slices.Contains(writeCommands, cmd.command)
ShouldLogAlways(cmd, walEnabled) == walEnabled

ShouldLogWrites(cmd, walEnabled) == cmd.command \in writeCommands

ShouldLog(cmd, walEnabled) == walEnabled /\ cmd.command \in writeCommands

\* fmt.Sprintf("%s %s %s\n", cmd.command, cmd.key, strings.Join(cmd.value, " "))
WalEntry(cmd) == <<cmd.command, SP, cmd.key, SP>> \o Join(cmd.value) \o <<LF>>

\* c.walFile.WriteString(entry) on an O_APPEND handle; a failed write adds nothing
WriteString(file, entry, ok) == IF ok THEN file \o entry ELSE file

\* ------------------------------------------------------- Operation, whole
\* the switch of Operation: the Store and subscriber effects and the reply
Switch(d, subs, cmd) ==
    LET base == [db |-> d, subscribers |-> subs, val |-> <<>>, err |-> FALSE]
    IN  CASE cmd.command = "PING" -> [base EXCEPT !.val = <<"PONG">>]
          [] cmd.command = "GET" -> [base EXCEPT !.val = Join(get(d, cmd.key))]
          [] cmd.command \in {"SET", "HMSET"} ->
                [base EXCEPT !.db = set(d, cmd.key, cmd.value), !.val = <<"OK">>]
          [] cmd.command = "DEL" ->
                [base EXCEPT !.db = del(d, cmd.key), !.val = <<"OK">>]
          [] cmd.command = "SUBSCRIBE" ->
                [base EXCEPT
                   !.subscribers =
                       [t \in DOMAIN subs \cup {cmd.key} |->
                           IF t = cmd.key
                           THEN Append(IF t \in DOMAIN subs THEN subs[t] ELSE <<>>, cmd.conn)
                           ELSE subs[t]],
                   !.val = <<"Subscribed", SP, "to", SP, cmd.key>>]
          [] cmd.command = "PUBLISH" ->
                \* go c.publish(...) only writes to the subscribers' sockets
                [base EXCEPT !.val = <<"Message", SP, "published", SP, "to", SP, cmd.key>>]
          [] OTHER -> [base EXCEPT !.err = TRUE]

\* Operation(cmd, walEnabled) run by one caller with no other task running
Operation(d, subs, wal, cmd, walEnabled) ==
    LET logged == IF ShouldLog(cmd, walEnabled)
                  THEN WriteString(wal, WalEntry(cmd), TRUE) ELSE wal
        r == Switch(d, subs, cmd)
    IN  [db |-> r.db, subscribers |-> r.subscribers, wal |-> logged,
         val |-> r.val, err |-> r.err]

RECURSIVE Restore(_, _)
\* the scanner loop of loadSnapshot as a function of the lines it is given:
\* parse each line, dispatch the well-formed ones with walEnabled = false
Restore(d, lines) ==
    IF Len(lines) = 0 THEN d
    ELSE LET p == parse(Head(lines), NoConn)
         IN  Restore(IF p.err THEN d ELSE Switch(d, EmptyDb, p.cmd).db, Tail(lines))

\* --------------------------------------------------------- gob on data.dat
Cell(t, k, v, n) == [t |-> t, k |-> k, v |-> v, n |-> n]
\* the type descriptors gob sends before the first value
TypesCell == Cell("types", "", <<>>, 0)
\* the head of the value message: the element count of the map
MapCell(n) == Cell("map", "", <<>>, n)
EntryCell(k, v) == Cell("entry", k, v, 0)
\* a text atom stored in data.dat
TextCell(a) == Cell("text", a, <<>>, 0)

\* the orders in which Go may iterate a map with key set S
Orders(S) ==
    {o \in [1..Cardinality(S) -> S] : \A i, j \in 1..Cardinality(S) : i # j => o[i] # o[j]}

\* the value message of encoder.Encode(c.db), its entries in iteration order ord
ValueMessage(d, ord) ==
    <<MapCell(Len(ord))>> \o [i \in 1..Len(ord) |-> EntryCell(ord[i], d[ord[i]])]

\* a write through a handle opened O_CREATE|O_WRONLY (no O_TRUNC, no O_APPEND):
\* the cells land at the handle's offset, what lies beyond them stays
WriteAtAppends(data, off, cells) == data \o cells

WriteAt(data, off, cells) ==
    LET n == IF Len(data) > off + Len(cells) THEN Len(data) ELSE off + Len(cells)
    IN  [i \in 1..n |-> IF i > off /\ i <= off + Len(cells) THEN cells[i - off] ELSE data[i]]

RECURSIVE DecodeEntries(_, _, _, _)
\* the map decoder: inserts the entries one by one, stops at the first bad one
DecodeEntries(data, i, last, d) ==
    IF i > last THEN [err |-> FALSE, db |-> d]
    ELSE IF data[i].t # "entry" THEN [err |-> TRUE, db |-> d]
    ELSE DecodeEntries(data, i + 1, last, set(d, data[i].k, data[i].v))

\* decoder.Decode(&c.db) into a fresh map: pos is the last cell of the payload
Decode(data) ==
    IF Len(data) < 2 \/ data[1].t # "types" \/ data[2].t # "map"
        THEN [err |-> TRUE, db |-> EmptyDb, pos |-> 0]
    ELSE IF Len(data) < 2 + data[2].n
        \* the message is shorter than its length prefix: nothing is decoded
        THEN [err |-> TRUE, db |-> EmptyDb, pos |-> 0]
    ELSE LET r == DecodeEntries(data, 3, 2 + data[2].n, EmptyDb)
         IN  [err |-> r.err, db |-> r.db, pos |-> 2 + data[2].n]

\* the bytes of a cell as the line scanner sees them
GobBytes == "<gob>"
CellText(c) == IF c.t = "text" THEN c.k ELSE GobBytes

\* what bufio.NewScanner(file) yields from offset off of data.dat
ScanFrom(data, off) ==
    ScanLines([i \in 1..(Len(data) - off) |-> CellText(data[i + off])])

\* ------------------------------------------------------------------ state
Main == "main"
Snap == "snap"
Conns == {"c1", "c2"}
Procs == {Main, Snap} \cup Conns
NoProc == "none"

VARIABLES
    db,           \* c.db
    subscribers,  \* c.subscribers
    lock,         \* c.lock (sync.RWMutex): the writer and the readers holding it
    walLock,      \* c.walLock (sync.Mutex): its holder
    walOpen,      \* whether the handle c.walFile is open
    walFile,      \* the content of data.wal
    datFile,      \* data.dat: whether it exists, and its content
    pc,           \* where each task stands
    cmd,          \* the RedisCommand each task is running Operation on
    walEn,        \* the walEnabled argument of that call
    resp,         \* what that call returned
    tempOff,      \* the write offset of tempFile in saveSnapshot
    scanner,      \* the lines loadSnapshot's scanner has still to yield
    h             \* history, read by the properties only

vars == <<db, subscribers, lock, walLock, walOpen, walFile, datFile, pc, cmd, walEn,
          resp, tempOff, scanner, h>>

NoCmd == RedisCommand("", "", <<>>, NoConn)
NoResp == [val |-> <<>>, err |-> FALSE]
Unlocked == [w |-> NoProc, r |-> {}]
NoFile == [exists |-> FALSE, data |-> <<>>]
NoHistory ==
    [nOps |-> 0,          \* live mutating requests accepted
     crashes |-> 0,
     nSnaps |-> 0,        \* runs of saveSnapshot started
     snapDone |-> 0,      \* runs of saveSnapshot that returned after the truncation
     ops |-> <<>>,        \* the mutating commands a lone caller has run, in order
     direct |-> EmptyDb,  \* the live commands applied, in order, to an empty Store
     pending |-> {},      \* connections with a record in data.wal that no encoded
                          \* snapshot reflects
     lost |-> FALSE,      \* a truncation removed such a record
     snapDb |-> EmptyDb,  \* the Store when the last snapshot was encoded
     prevDat |-> NoFile,  \* data.dat when the last saveSnapshot began
     dirty |-> FALSE,     \* a Store mutation or WAL append since the last encoding
     quiet |-> TRUE,      \* no command was between accept and return at the crash
     closing |-> FALSE,   \* Close has been called
     failed |-> {},       \* connections whose last WAL append returned an error
     renamed |-> FALSE,   \* os.Rename succeeded in the saveSnapshot run under way
     passes |-> 0,        \* complete replays of data.wal by the replay loop
     once |-> EmptyDb,    \* the Store at the end of the first replay
     recovered |-> FALSE] \* loadSnapshot has returned after a crash, and no
                          \* request was accepted and no snapshot begun since

CanLockPastReaders == lock.w = NoProc

CanLock == lock.w = NoProc /\ lock.r = {}
CanRLock == lock.w = NoProc

\* the tasks once NewRedisServer has returned: main starts the snapshot goroutine
\* and accepts connections
Serving == [p \in Procs |-> IF p = Main THEN "serving" ELSE IF p = Snap THEN "sleep" ELSE "read"]

\* where a caller of Operation continues when the call returns
Return(p) == IF p = Main THEN "load_scan" ELSE "reply"

\* the state after construction: a process starting on an empty directory
Init ==
    /\ db = EmptyDb
    /\ subscribers = EmptyDb
    /\ lock = Unlocked
    /\ walLock = NoProc
    /\ walOpen = FALSE
    /\ walFile = <<>>
    /\ datFile = NoFile
    /\ pc = [p \in Procs |-> IF p = Main THEN "start" ELSE "off"]
    /\ cmd = [p \in Procs |-> NoCmd]
    /\ walEn = [p \in Procs |-> FALSE]
    /\ resp = [p \in Procs |-> NoResp]
    /\ tempOff = 0
    /\ scanner = <<>>
    /\ h = NoHistory

\* ------------------------------------------------------- Operation, stepwise
\* Operation after its WAL gate: the commands that take the Store lock wait for
\* it, the others run the switch at once and return
Dispatch(p, c) ==
    IF c.command \in {"GET", "SET", "HMSET", "DEL"}
    THEN /\ pc' = [pc EXCEPT ![p] = "store_lock"]
         /\ UNCHANGED <<subscribers, resp>>
    ELSE LET r == Switch(db, subscribers, c)
         IN  /\ subscribers' = r.subscribers
             /\ resp' = [resp EXCEPT ![p] = [val |-> r.val, err |-> r.err]]
             /\ pc' = [pc EXCEPT ![p] = Return(p)]

\* Operation(c, w) is entered by task p
Enter(p, c, w) ==
    /\ cmd' = [cmd EXCEPT ![p] = c]
    /\ walEn' = [walEn EXCEPT ![p] = w]
    /\ IF ShouldLog(c, w)
       THEN /\ pc' = [pc EXCEPT ![p] = "wal_lock"]
            /\ UNCHANGED <<subscribers, resp>>
       ELSE Dispatch(p, c)

RECURSIVE TrimLeft(_)
TrimLeft(s) == IF Len(s) > 0 /\ IsSpace(Head(s)) THEN TrimLeft(Tail(s)) ELSE s
RECURSIVE TrimRight(_)
TrimRight(s) ==
    IF Len(s) > 0 /\ IsSpace(s[Len(s)]) THEN TrimRight(SubSeq(s, 1, Len(s) - 1)) ELSE s
\* strings.TrimSpace
TrimSpace(s) == TrimRight(TrimLeft(s))

\* handleConn: one round of the loop up to the call of Operation; an empty or
\* malformed request is answered (or skipped) at once and changes nothing
Request(p, query) ==
    /\ p \in Conns
    /\ pc[p] = "read"
    /\ LET input == TrimSpace(query)
           r == parse(input, p)
           logged == r.cmd.command \in writeCommands
       IN  /\ input # <<>>
           /\ ~r.err
           /\ logged => h.nOps < MaxOps
           /\ Enter(p, r.cmd, TRUE)
           /\ h' = IF logged THEN [h EXCEPT !.nOps = @ + 1, !.recovered = FALSE] ELSE h
    /\ UNCHANGED <<db, lock, walLock, walOpen, walFile, datFile, tempOff, scanner>>

\* handleConn: a request that does not parse: "Invalid command" is written to the
\* connection and the loop goes on (an empty request is skipped without a reply)
Rejected(p, query) ==
    /\ p \in Conns
    /\ pc[p] = "read"
    /\ TrimSpace(query) # <<>>
    /\ parse(TrimSpace(query), p).err
    /\ pc' = [pc EXCEPT ![p] = "reply"]
    /\ resp' = [resp EXCEPT ![p] = [val |-> <<>>, err |-> TRUE]]
    /\ UNCHANGED <<db, subscribers, lock, walLock, walOpen, walFile, datFile, cmd, walEn,
                   tempOff, scanner, h>>

\* handleConn: conn.Write of the reply; resp and cmd are locals of the loop body
Reply(p) ==
    /\ pc[p] = "reply"
    /\ pc' = [pc EXCEPT ![p] = "read"]
    /\ cmd' = [cmd EXCEPT ![p] = NoCmd]
    /\ walEn' = [walEn EXCEPT ![p] = FALSE]
    /\ resp' = [resp EXCEPT ![p] = NoResp]
    /\ UNCHANGED <<db, subscribers, lock, walLock, walOpen, walFile, datFile, tempOff,
                   scanner, h>>

\* appendToWAL: c.walLock.Lock()
WalLock(p) ==
    /\ pc[p] = "wal_lock"
    /\ walLock = NoProc
    /\ walLock' = p
    /\ pc' = [pc EXCEPT ![p] = "wal_write"]
    /\ UNCHANGED <<db, subscribers, lock, walOpen, walFile, datFile, cmd, walEn, resp,
                   tempOff, scanner, h>>

\* appendToWAL: the write and the deferred unlock, then on to the switch
WalWriteHolds(p, ok) ==
    /\ pc[p] = "wal_write"
    /\ walFile' = WriteString(walFile, WalEntry(cmd[p]), ok /\ walOpen)
    /\ walLock' = walLock
    /\ Dispatch(p, cmd[p])
    /\ h' = [h EXCEPT !.pending = IF ok /\ walOpen THEN @ \cup {p} ELSE @,
                      !.failed = IF ok /\ walOpen THEN @ \ {p} ELSE @ \cup {p},
                      !.dirty = TRUE]
    /\ UNCHANGED <<db, lock, walOpen, datFile, cmd, walEn, tempOff, scanner>>

WalWriteAborts(p, ok) ==
    /\ pc[p] = "wal_write"
    /\ walFile' = WriteString(walFile, WalEntry(cmd[p]), ok /\ walOpen)
    /\ walLock' = NoProc
    /\ IF ok /\ walOpen
       THEN Dispatch(p, cmd[p])
       ELSE /\ pc' = [pc EXCEPT ![p] = Return(p)]
            /\ resp' = [resp EXCEPT ![p] = [val |-> <<>>, err |-> TRUE]]
            /\ UNCHANGED subscribers
    /\ h' = [h EXCEPT !.pending = IF ok /\ walOpen THEN @ \cup {p} ELSE @,
                      !.failed = IF ok /\ walOpen THEN @ \ {p} ELSE @ \cup {p},
                      !.dirty = TRUE]
    /\ UNCHANGED <<db, lock, walOpen, datFile, cmd, walEn, tempOff, scanner>>

WalWrite(p, ok) ==
    /\ pc[p] = "wal_write"
    /\ walFile' = WriteString(walFile, WalEntry(cmd[p]), ok /\ walOpen)
    /\ walLock' = NoProc
    /\ Dispatch(p, cmd[p])
    /\ h' = [h EXCEPT !.pending = IF ok /\ walOpen THEN @ \cup {p} ELSE @,
                      !.failed = IF ok /\ walOpen THEN @ \ {p} ELSE @ \cup {p},
                      !.dirty = TRUE]
    /\ UNCHANGED <<db, lock, walOpen, datFile, cmd, walEn, tempOff, scanner>>

\* set, get, del: c.lock.Lock() or c.lock.RLock()
StoreLock(p) ==
    /\ pc[p] = "store_lock"
    /\ IF cmd[p].command = "GET"
       THEN CanRLock /\ lock' = [lock EXCEPT !.r = @ \cup {p}]
       ELSE CanLock /\ lock' = [lock EXCEPT !.w = p]
    /\ pc' = [pc EXCEPT ![p] = "store_cs"]
    /\ UNCHANGED <<db, subscribers, walLock, walOpen, walFile, datFile, cmd, walEn, resp,
                   tempOff, scanner, h>>

\* set, get, del: the map access, the deferred unlock, and Operation's return
StoreApply(p) ==
    /\ pc[p] = "store_cs"
    /\ LET r == Switch(db, subscribers, cmd[p])
       IN  /\ db' = r.db
           /\ resp' = [resp EXCEPT ![p] = [val |-> r.val, err |-> r.err]]
    /\ lock' = IF cmd[p].command = "GET"
               THEN [lock EXCEPT !.r = @ \ {p}] ELSE [lock EXCEPT !.w = NoProc]
    /\ pc' = [pc EXCEPT ![p] = Return(p)]
    /\ h' = IF p \in Conns /\ cmd[p].command \in writeCommands
            THEN [h EXCEPT !.direct = Switch(@, EmptyDb, cmd[p]).db, !.dirty = TRUE]
            ELSE h
    /\ UNCHANGED <<subscribers, walLock, walOpen, walFile, datFile, cmd, walEn, tempOff,
                   scanner>>

\* ------------------------------------------------------------------ startup
\* NewRedisServer up to the call of loadSnapshot; log.Fatalf when data.wal
\* cannot be opened.  O_APPEND|O_CREATE leaves the content of data.wal as it is.
NewRedisServerTruncates(ok) ==
    /\ pc[Main] = "start"
    /\ db' = EmptyDb
    /\ subscribers' = EmptyDb
    /\ walOpen' = ok
    /\ walFile' = IF ok THEN <<>> ELSE walFile
    /\ pc' = [pc EXCEPT ![Main] = IF ok THEN "load_open" ELSE "fatal"]
    /\ UNCHANGED <<lock, walLock, datFile, cmd, walEn, resp, tempOff, scanner, h>>

NewRedisServer(ok) ==
    /\ pc[Main] = "start"
    /\ db' = EmptyDb
    /\ subscribers' = EmptyDb
    /\ walOpen' = ok
    /\ pc' = [pc EXCEPT ![Main] = IF ok THEN "load_open" ELSE "fatal"]
    /\ UNCHANGED <<lock, walLock, walFile, datFile, cmd, walEn, resp, tempOff, scanner, h>>

\* history: loadSnapshot returns and main goes on to serve
Recovered == [h EXCEPT !.recovered = (h.crashes > 0)]

\* loadSnapshot: os.Open("data.dat"); an error returns at once
LoadOpen(ok) ==
    /\ pc[Main] = "load_open"
    /\ IF datFile.exists /\ ok
       THEN pc' = [pc EXCEPT ![Main] = "load_lock"] /\ h' = h
       ELSE pc' = Serving /\ h' = Recovered
    /\ UNCHANGED <<db, subscribers, lock, walLock, walOpen, walFile, datFile, cmd, walEn,
                   resp, tempOff, scanner>>

\* loadSnapshot: c.lock.Lock()
LoadLock ==
    /\ pc[Main] = "load_lock"
    /\ CanLock
    /\ lock' = [lock EXCEPT !.w = Main]
    /\ pc' = [pc EXCEPT ![Main] = "load_decode"]
    /\ UNCHANGED <<db, subscribers, walLock, walOpen, walFile, datFile, cmd, walEn, resp,
                   tempOff, scanner, h>>

\* loadSnapshot: c.db = make(...), decoder.Decode(&c.db); a decode error returns.
\* The decoder reads through its own buffer, so the scanner that follows starts
\* up to ReadAhead cells past the payload.
LoadDecode(ahead) ==
    /\ pc[Main] = "load_decode"
    /\ LET r == Decode(datFile.data)
       IN  /\ db' = r.db
           /\ IF r.err
              THEN /\ ahead = 0
                   /\ lock' = [lock EXCEPT !.w = NoProc]
                   /\ pc' = Serving
                   /\ h' = Recovered
                   /\ UNCHANGED scanner
              ELSE /\ r.pos + ahead <= Len(datFile.data)
                   /\ scanner' = ScanFrom(datFile.data, r.pos + ahead)
                   /\ pc' = [pc EXCEPT ![Main] = "load_scan"]
                   /\ UNCHANGED <<lock, h>>
    /\ UNCHANGED <<subscribers, walLock, walOpen, walFile, datFile, cmd, walEn, resp,
                   tempOff>>

\* loadSnapshot: one round of the scanner loop, up to the call of Operation;
\* at the end of the stream loadSnapshot returns and its deferred unlock runs
LoadScan ==
    /\ pc[Main] = "load_scan"
    /\ IF scanner = <<>>
       THEN /\ lock' = [lock EXCEPT !.w = NoProc]
            /\ pc' = Serving
            /\ h' = Recovered
            /\ cmd' = [cmd EXCEPT ![Main] = NoCmd]
            /\ resp' = [resp EXCEPT ![Main] = NoResp]
            /\ UNCHANGED <<scanner, walEn, subscribers>>
       ELSE LET r == parse(Head(scanner), NoConn)
            IN  /\ scanner' = Tail(scanner)
                /\ IF r.err
                   THEN UNCHANGED <<pc, cmd, walEn, resp, subscribers>>
                   ELSE Enter(Main, r.cmd, FALSE)
                /\ UNCHANGED <<lock, h>>
    /\ UNCHANGED <<db, walLock, walOpen, walFile, datFile, tempOff>>

\* ------------------------------------------------------------- saveSnapshot
\* the goroutine of main: time.Sleep, then saveSnapshot
SnapWake ==
    /\ pc[Snap] = "sleep"
    /\ h.nSnaps < MaxSnaps
    /\ pc' = [pc EXCEPT ![Snap] = "snap_rlock"]
    /\ h' = [h EXCEPT !.nSnaps = @ + 1, !.recovered = FALSE]
    /\ UNCHANGED <<db, subscribers, lock, walLock, walOpen, walFile, datFile, cmd, walEn,
                   resp, tempOff, scanner>>

\* where saveSnapshot's caller continues
SnapReturn(p) == IF p = Snap THEN "sleep" ELSE "closed"

\* saveSnapshot: c.lock.RLock()
SnapRLock(p) ==
    /\ pc[p] = "snap_rlock"
    /\ CanRLock
    /\ lock' = [lock EXCEPT !.r = @ \cup {p}]
    /\ pc' = [pc EXCEPT ![p] = "snap_open"]
    /\ h' = [h EXCEPT !.prevDat = datFile, !.renamed = FALSE]
    /\ UNCHANGED <<db, subscribers, walLock, walOpen, walFile, datFile, cmd, walEn, resp,
                   tempOff, scanner>>

\* saveSnapshot's early return: the deferred RUnlock
SnapFail(p) ==
    /\ lock' = [lock EXCEPT !.r = @ \ {p}]
    /\ pc' = [pc EXCEPT ![p] = SnapReturn(p)]
    /\ UNCHANGED <<datFile, tempOff, h>>

\* saveSnapshot: tempFile = os.OpenFile("data.dat", O_CREATE|O_WRONLY): the
\* canonical file itself, created empty when absent, never truncated
SnapOpen(p, ok) ==
    /\ pc[p] = "snap_open"
    /\ IF ok
       THEN /\ datFile' = [datFile EXCEPT !.exists = TRUE]
            /\ tempOff' = 0
            /\ pc' = [pc EXCEPT ![p] = "snap_types"]
            /\ UNCHANGED <<lock, h>>
       ELSE SnapFail(p)
    /\ UNCHANGED <<db, subscribers, walLock, walOpen, walFile, cmd, walEn, resp, scanner>>

\* encoder.Encode(c.db), first write: the type descriptors
SnapTypes(p, ok) ==
    /\ pc[p] = "snap_types"
    /\ IF ok
       THEN /\ datFile' = [datFile EXCEPT !.data = WriteAt(@, tempOff, <<TypesCell>>)]
            /\ tempOff' = tempOff + 1
            /\ pc' = [pc EXCEPT ![p] = "snap_value"]
            /\ UNCHANGED <<lock, h>>
       ELSE SnapFail(p)
    /\ UNCHANGED <<db, subscribers, walLock, walOpen, walFile, cmd, walEn, resp, scanner>>

\* the connections whose command is logged but not yet applied to the Store
InFlight == {p \in Conns : pc[p] \in {"store_lock", "store_cs"} /\ ShouldLog(cmd[p], walEn[p])}

\* encoder.Encode(c.db), second write: the value message
SnapValue(p, ok, ord) ==
    /\ pc[p] = "snap_value"
    /\ ord \in Orders(DOMAIN db)
    /\ IF ok
       THEN /\ datFile' = [datFile EXCEPT !.data = WriteAt(@, tempOff, ValueMessage(db, ord))]
            /\ tempOff' = tempOff + Len(ValueMessage(db, ord))
            /\ pc' = [pc EXCEPT ![p] = "snap_rename"]
            /\ h' = [h EXCEPT !.snapDb = db, !.dirty = FALSE,
                              !.pending = @ \cap InFlight]
            /\ UNCHANGED lock
       ELSE SnapFail(p)
    /\ UNCHANGED <<db, subscribers, walLock, walOpen, walFile, cmd, walEn, resp, scanner>>

\* saveSnapshot: os.Rename(tempFile.Name(), "data.dat"), a rename of data.dat
\* onto itself; an error is logged and saveSnapshot goes on
SnapRename(p, ok) ==
    /\ pc[p] = "snap_rename"
    /\ ok \in BOOLEAN
    /\ pc' = [pc EXCEPT ![p] = "snap_wal_lock"]
    /\ h' = [h EXCEPT !.renamed = ok]
    /\ UNCHANGED <<db, subscribers, lock, walLock, walOpen, walFile, datFile, cmd, walEn,
                   resp, tempOff, scanner>>

\* saveSnapshot: c.walLock.Lock()
SnapWalLock(p) ==
    /\ pc[p] = "snap_wal_lock"
    /\ walLock = NoProc
    /\ walLock' = p
    /\ pc' = [pc EXCEPT ![p] = "snap_truncate"]
    /\ UNCHANGED <<db, subscribers, lock, walOpen, walFile, datFile, cmd, walEn, resp,
                   tempOff, scanner, h>>

\* c.walFile.Truncate(0) (Seek and Sync leave the content alone)
TruncateKeeps(file, ok) == file

Truncate(file, ok) == IF ok THEN <<>> ELSE file

\* saveSnapshot: Truncate, Seek, Sync, then the deferred unlocks and the return
SnapTruncate(p, ok) ==
    /\ pc[p] = "snap_truncate"
    /\ walFile' = Truncate(walFile, ok /\ walOpen)
    /\ walLock' = NoProc
    /\ lock' = [lock EXCEPT !.r = @ \ {p}]
    /\ pc' = [pc EXCEPT ![p] = SnapReturn(p)]
    /\ h' = [h EXCEPT !.snapDone = @ + 1,
                      !.lost = @ \/ (ok /\ walOpen /\ h.pending # {}),
                      !.pending = IF ok /\ walOpen THEN {} ELSE @]
    /\ UNCHANGED <<db, subscribers, walOpen, datFile, cmd, walEn, resp, tempOff, scanner>>

\* one step of saveSnapshot run by task p
SaveSnapshot(p, ok) ==
    \/ SnapRLock(p)
    \/ SnapOpen(p, ok)
    \/ SnapTypes(p, ok)
    \/ \E ord \in Orders(DOMAIN db) : SnapValue(p, ok, ord)
    \/ SnapRename(p, ok)
    \/ SnapWalLock(p)
    \/ SnapTruncate(p, ok)

\* -------------------------------------------------------------------- Close
\* Close: c.lock.Lock()
CloseLock ==
    /\ pc[Main] = "serving"
    /\ CanLock
    /\ lock' = [lock EXCEPT !.w = Main]
    /\ pc' = [pc EXCEPT ![Main] = "close_wal"]
    /\ h' = [h EXCEPT !.closing = TRUE]
    /\ UNCHANGED <<db, subscribers, walLock, walOpen, walFile, datFile, cmd, walEn, resp,
                   tempOff, scanner>>

\* Close: c.walFile.Close(), then the call of saveSnapshot
CloseWal ==
    /\ pc[Main] = "close_wal"
    /\ walOpen' = FALSE
    /\ pc' = [pc EXCEPT ![Main] = "snap_rlock"]
    /\ UNCHANGED <<db, subscribers, lock, walLock, walFile, datFile, cmd, walEn, resp,
                   tempOff, scanner, h>>

\* -------------------------------------------------------------------- crash
\* the process dies and is started again: memory is lost, the files stay
Crash ==
    /\ h.crashes < MaxCrashes
    /\ pc[Main] # "start"
    /\ db' = EmptyDb
    /\ subscribers' = EmptyDb
    /\ lock' = Unlocked
    /\ walLock' = NoProc
    /\ walOpen' = FALSE
    /\ pc' = [p \in Procs |-> IF p = Main THEN "start" ELSE "off"]
    /\ cmd' = [p \in Procs |-> NoCmd]
    /\ walEn' = [p \in Procs |-> FALSE]
    /\ resp' = [p \in Procs |-> NoResp]
    /\ tempOff' = 0
    /\ scanner' = <<>>
    /\ h' = [h EXCEPT !.crashes = @ + 1, !.recovered = FALSE, !.closing = FALSE,
                      !.pending = {}, !.failed = {},
                      !.quiet = \A p \in Conns : pc[p] \in {"read", "reply", "off"}]
    /\ UNCHANGED <<walFile, datFile>>

\* ------------------------------------------------------------ specifications
\* the requests a client sends in the full system
Queries ==
    { <<"SET", SP, "k1", SP, "a", CRLF>>,
      <<"set", SP, "k1", SP, "b">>,
      <<"DEL", SP, "k1", CRLF>>,
      <<"GET", SP, "k1", CRLF>>,
      <<"FOO", CRLF>> }

\* the full system with every file operation succeeding
Next ==
    \/ NewRedisServer(TRUE)
    \/ LoadOpen(TRUE)
    \/ LoadLock
    \/ \E ahead \in 0..ReadAhead : LoadDecode(ahead)
    \/ LoadScan
    \/ \E p \in Conns, q \in Queries : Request(p, q)
    \/ \E p \in Conns, q \in Queries : Rejected(p, q)
    \/ \E p \in Conns : Reply(p)
    \/ \E p \in Procs : WalLock(p)
    \/ \E p \in Procs : WalWrite(p, TRUE)
    \/ \E p \in Procs : StoreLock(p)
    \/ \E p \in Procs : StoreApply(p)
    \/ SnapWake
    \/ SaveSnapshot(Snap, TRUE)
    \/ Crash

Spec == Init /\ [][Next]_vars

\* --------------------------------------------------- a lone caller of Operation
Keys == {"k1", "k2"}

\* the commands handed to Operation: every tag of the switch, and tags it does
\* not know
Commands ==
    {RedisCommand("PING", "", <<>>, "c1")}
    \cup {RedisCommand(t, k, <<>>, "c1") : t \in {"GET", "DEL", "SUBSCRIBE"}, k \in Keys}
    \cup {RedisCommand("SET", k, <<v>>, "c1") : k \in Keys, v \in {"a", "b"}}
    \cup {RedisCommand(t, k, <<"a", "b">>, "c1") : t \in {"HMSET", "PUBLISH", "FOO"}, k \in Keys}

RECURSIVE CountSubs(_, _)
\* the connections registered in subs for the topics of T
CountSubs(subs, T) ==
    IF T = {} THEN 0
    ELSE LET t == CHOOSE x \in T : TRUE IN Len(subs[t]) + CountSubs(subs, T \ {t})

\* a served process with no snapshot, no WAL record and no task running
InitOp ==
    /\ db = EmptyDb
    /\ subscribers = EmptyDb
    /\ lock = Unlocked
    /\ walLock = NoProc
    /\ walOpen = TRUE
    /\ walFile = <<>>
    /\ datFile = NoFile
    /\ pc = Serving
    /\ cmd = [p \in Procs |-> NoCmd]
    /\ walEn = [p \in Procs |-> FALSE]
    /\ resp = [p \in Procs |-> NoResp]
    /\ tempOff = 0
    /\ scanner = <<>>
    /\ h = NoHistory

\* task p calls Operation(c, w) and the call returns before anything else runs
DoOperation(p, c, w) ==
    /\ pc = Serving
    /\ c.command \in writeCommands => Len(h.ops) < MaxOps
    /\ c.command = "SUBSCRIBE" => CountSubs(subscribers, DOMAIN subscribers) < MaxOps
    /\ LET r == Operation(db, subscribers, walFile, c, w)
       IN  /\ db' = r.db
           /\ subscribers' = r.subscribers
           /\ walFile' = r.wal
           /\ resp' = [resp EXCEPT ![p] = [val |-> r.val, err |-> r.err]]
    /\ cmd' = [cmd EXCEPT ![p] = c]
    /\ walEn' = [walEn EXCEPT ![p] = w]
    /\ h' = IF c.command \in writeCommands THEN [h EXCEPT !.ops = Append(@, c)] ELSE h
    /\ UNCHANGED <<lock, walLock, walOpen, datFile, pc, tempOff, scanner>>

NextOp == \E c \in Commands, w \in BOOLEAN : DoOperation("c1", c, w)

SpecOp == InitOp /\ [][NextOp]_vars

\* ------------------------------------------ snapshot round trip, in isolation
\* the Stores a snapshot is taken of
Stores == UNION {[S -> {<<"a">>, <<"a", "b">>}] : S \in SUBSET Keys}

\* the files encoder.Encode writes on an empty data.dat
Encodings ==
    UNION {{<<TypesCell>> \o ValueMessage(d, ord) : ord \in Orders(DOMAIN d)} : d \in Stores}

\* what earlier runs of saveSnapshot can have left in data.dat: nothing, an empty
\* file, the type descriptors alone, a snapshot, or a snapshot written over a
\* longer one
PriorFiles ==
    {NoFile}
    \cup {[exists |-> TRUE, data |-> f] :
            f \in {<<>>, <<TypesCell>>} \cup Encodings
                  \cup {WriteAt(old, 0, new) : old \in Encodings, new \in Encodings}}

\* a served process holding any Store, over any such data.dat
InitRT ==
    /\ db \in Stores
    /\ subscribers = EmptyDb
    /\ lock = Unlocked
    /\ walLock = NoProc
    /\ walOpen = TRUE
    /\ walFile = <<>>
    /\ datFile \in PriorFiles
    /\ pc = Serving
    /\ cmd = [p \in Procs |-> NoCmd]
    /\ walEn = [p \in Procs |-> FALSE]
    /\ resp = [p \in Procs |-> NoResp]
    /\ tempOff = 0
    /\ scanner = <<>>
    /\ h = NoHistory

\* saveSnapshot, a crash, and the restart through loadSnapshot
NextRT ==
    \/ SnapWake
    \/ SaveSnapshot(Snap, TRUE)
    \/ Crash
    \/ NewRedisServer(TRUE)
    \/ LoadOpen(TRUE)
    \/ LoadLock
    \/ \E ahead \in 0..ReadAhead : LoadDecode(ahead)
    \/ LoadScan

SpecRT == InitRT /\ [][NextRT]_vars

\* ------------------------------------------------ the replay loop, in isolation
\* the commands appendToWAL writes a record for
LoggedCommands == {c \in Commands : c.command \in writeCommands}

RECURSIVE WalOf(_)
\* data.wal after appendToWAL ran for the commands of cs in order
WalOf(cs) ==
    IF Len(cs) = 0 THEN <<>>
    ELSE WriteString(WalOf(SubSeq(cs, 1, Len(cs) - 1)), WalEntry(cs[Len(cs)]), TRUE)

\* the contents of data.wal of up to MaxRecs records
Wals == UNION {{WalOf(cs) : cs \in [1..n -> LoggedCommands]} : n \in 0..MaxRecs}

\* an empty Store and a scanner at the start of some data.wal
InitReplay ==
    /\ db = EmptyDb
    /\ subscribers = EmptyDb
    /\ lock = Unlocked
    /\ walLock = NoProc
    /\ walOpen = TRUE
    /\ walFile \in Wals
    /\ datFile = NoFile
    /\ pc = [p \in Procs |-> IF p = Main THEN "replay" ELSE "off"]
    /\ cmd = [p \in Procs |-> NoCmd]
    /\ walEn = [p \in Procs |-> FALSE]
    /\ resp = [p \in Procs |-> NoResp]
    /\ tempOff = 0
    /\ scanner = ScanLines(walFile)
    /\ h = NoHistory

\* one round of the scanner loop: scanner.Text(), cmd.parse(line), and for a
\* well-formed line Operation(cmd, false), run to its return
ReplayLine ==
    /\ pc[Main] = "replay"
    /\ scanner # <<>>
    /\ scanner' = Tail(scanner)
    /\ LET r == parse(Head(scanner), NoConn)
           o == Operation(db, subscribers, walFile, r.cmd, FALSE)
       IN  IF r.err
           THEN UNCHANGED <<db, subscribers, walFile, cmd, walEn, resp>>
           ELSE /\ db' = o.db
                /\ subscribers' = o.subscribers
                /\ walFile' = o.wal
                /\ cmd' = [cmd EXCEPT ![Main] = r.cmd]
                /\ walEn' = [walEn EXCEPT ![Main] = FALSE]
                /\ resp' = [resp EXCEPT ![Main] = [val |-> o.val, err |-> o.err]]
    /\ UNCHANGED <<lock, walLock, walOpen, datFile, pc, tempOff, h>>

\* the scanner reached the end of data.wal; the first time, the same file is
\* replayed once more on the Store as it stands
ReplayEnd ==
    /\ pc[Main] = "replay"
    /\ scanner = <<>>
    /\ h.passes < 2
    /\ scanner' = IF h.passes = 0 THEN ScanLines(walFile) ELSE <<>>
    /\ h' = [h EXCEPT !.passes = @ + 1, !.once = IF h.passes = 0 THEN db ELSE @]
    /\ cmd' = [cmd EXCEPT ![Main] = NoCmd]
    /\ resp' = [resp EXCEPT ![Main] = NoResp]
    /\ UNCHANGED <<db, subscribers, lock, walLock, walOpen, walFile, datFile, pc, walEn,
                   tempOff>>

NextReplay == ReplayLine \/ ReplayEnd

SpecReplay == InitReplay /\ [][NextReplay]_vars

\* ------------------------------------------- startup on any data.dat, then GETs
\* the text lines that may follow the payload
TailLines ==
    { <<"SET", SP, "k1", SP, "b", LF>>,
      <<"GET", SP, "k2", LF>>,
      <<"DEL", SP, "k1", LF>>,
      <<"PING", LF>>,
      <<"SUBSCRIBE", SP, "k1", LF>>,
      <<"FOO", LF>> }

RECURSIVE Concat(_)
Concat(ss) == IF Len(ss) = 0 THEN <<>> ELSE Head(ss) \o Concat(Tail(ss))

\* up to MaxTail such lines, as cells of data.dat
Tails ==
    UNION {{[i \in DOMAIN Concat(ls) |-> TextCell(Concat(ls)[i])] : ls \in [1..n -> TailLines]}
              : n \in 0..MaxTail}

\* a cell that is not the encoding of a map entry
BadCell == Cell("bad", "", <<>>, 0)

\* snapshots damaged on disk: cut short, or with one entry overwritten
Damaged ==
    UNION {{SubSeq(f, 1, n) : n \in 0..(Len(f) - 1)}
              \cup {[f EXCEPT ![i] = BadCell] : i \in 3..Len(f)} : f \in Encodings}

\* the data.dat a process may find when it starts
LoadFiles ==
    {NoFile}
    \cup {[exists |-> TRUE, data |-> f \o t] : f \in Encodings, t \in Tails}
    \cup {[exists |-> TRUE, data |-> f] : f \in Damaged}

\* a process starting on an empty data.wal and any such data.dat
InitLoad ==
    /\ db = EmptyDb
    /\ subscribers = EmptyDb
    /\ lock = Unlocked
    /\ walLock = NoProc
    /\ walOpen = FALSE
    /\ walFile = <<>>
    /\ datFile \in LoadFiles
    /\ pc = [p \in Procs |-> IF p = Main THEN "start" ELSE "off"]
    /\ cmd = [p \in Procs |-> NoCmd]
    /\ walEn = [p \in Procs |-> FALSE]
    /\ resp = [p \in Procs |-> NoResp]
    /\ tempOff = 0
    /\ scanner = <<>>
    /\ h = NoHistory

\* the steps of main from NewRedisServer to the return of loadSnapshot
MainLoad ==
    \/ NewRedisServer(TRUE)
    \/ LoadOpen(TRUE)
    \/ LoadLock
    \/ \E ahead \in 0..ReadAhead : LoadDecode(ahead)
    \/ LoadScan
    \/ StoreLock(Main)
    \/ StoreApply(Main)

\* startup, then connections that read the Store
NextLoad ==
    \/ NewRedisServer(TRUE)
    \/ LoadOpen(TRUE)
    \/ LoadLock
    \/ \E ahead \in 0..ReadAhead : LoadDecode(ahead)
    \/ LoadScan
    \/ \E p \in Procs : StoreLock(p)
    \/ \E p \in Procs : StoreApply(p)
    \/ \E p \in Conns : Request(p, <<"GET", SP, "k1", CRLF>>)
    \/ \E p \in Conns : Reply(p)

\* main is a goroutine that runs whenever it is not blocked
SpecLoad == InitLoad /\ [][NextLoad]_vars /\ WF_vars(MainLoad)

\* ------------------------------------------- the served system, files may fail
\* connections and the snapshot goroutine, where every write to data.wal and
\* every file operation of saveSnapshot may return an error
NextFail ==
    \/ \E p \in Conns, q \in Queries : Request(p, q)
    \/ \E p \in Conns, q \in Queries : Rejected(p, q)
    \/ \E p \in Conns : Reply(p)
    \/ \E p \in Procs : WalLock(p)
    \/ \E p \in Procs, ok \in BOOLEAN : WalWrite(p, ok)
    \/ \E p \in Procs : StoreLock(p)
    \/ \E p \in Procs : StoreApply(p)
    \/ SnapWake
    \/ \E ok \in BOOLEAN : SaveSnapshot(Snap, ok)

SpecFail == InitOp /\ [][NextFail]_vars

\* ------------------------------------------------- orderly shutdown, no crash
\* the steps task p takes by itself once it can: the Go scheduler runs every
\* goroutine that is not blocked
TaskStep(p) ==
    \/ WalLock(p)
    \/ WalWrite(p, TRUE)
    \/ StoreLock(p)
    \/ StoreApply(p)
    \/ p \in Conns /\ Reply(p)
    \/ SaveSnapshot(p, TRUE)
    \/ p = Main /\ CloseWal

\* the served system without crashes, with main returning into its deferred Close
NextClose ==
    \/ \E p \in Procs : TaskStep(p)
    \/ \E p \in Conns, q \in Queries : Request(p, q)
    \/ \E p \in Conns, q \in Queries : Rejected(p, q)
    \/ SnapWake
    \/ CloseLock

SpecClose == InitOp /\ [][NextClose]_vars /\ \A p \in Procs : WF_vars(TaskStep(p))

\* ================================================================ properties

\* what loadSnapshot restores from a data.dat
Loaded(f) == IF f.exists THEN Decode(f.data).db ELSE EmptyDb

\* C1 (Spec): when no snapshot has run and every accepted command had returned
\* before the crash, the Store after the restart equals the Store obtained by
\* applying the same live commands directly to an empty Store.
C1_RecoverFromWal ==
    (h.recovered /\ h.nSnaps = 0 /\ h.quiet) => db = h.direct

\* C2 (Spec): after a committed snapshot and further commands logged to data.wal,
\* the Store after a crash and restart equals the snapshot's mapping with every
\* valid WAL record applied on top of it in file order.
C2_RecoverSnapshotPlusWal ==
    (h.recovered /\ h.snapDone > 0 /\ walFile # <<>>) =>
        db = Restore(Loaded(datFile), ScanLines(walFile))

\* C3 (Spec): no truncation of data.wal removes the record of a command that the
\* snapshot written by the same saveSnapshot run does not reflect.
C3_NoWriteLost == ~h.lost

\* C4 (Spec): with no snapshot taken, whenever no command is between its WAL
\* append and its Store apply, the Store equals the replay of data.wal in file
\* order on an empty Store.
C4_WalReconstructsStore ==
    (pc[Main] = "serving" /\ h.nSnaps = 0 /\ h.crashes = 0 /\ InFlight = {}) =>
        db = Restore(EmptyDb, ScanLines(walFile))

\* C5 (Spec): a saveSnapshot run that completes leaves data.wal with length zero;
\* and a restart with no Store mutation and no WAL append since the snapshot was
\* encoded rebuilds the Store of that moment from data.dat alone.
C5_SnapshotThenRestart ==
    /\ [][h'.snapDone > h.snapDone => Len(walFile') = 0]_vars
    /\ []((h.recovered /\ h.snapDone > 0 /\ ~h.dirty) => (db = h.snapDb /\ db = Loaded(datFile)))

\* a restart after a completed snapshot of a non-empty Store, nothing written since
C5_Witness ==
    /\ h.recovered
    /\ h.snapDone > 0
    /\ ~h.dirty
    /\ db # EmptyDb
    /\ walFile = <<>>

\* C6 (Spec): until saveSnapshot reaches its rename step, data.dat is
\* authoritative for the previous snapshot only: a crash there restores what a
\* crash before the run would have restored.
C6_CommitAtRename ==
    \A p \in {Snap, Main} :
        pc[p] \in {"snap_types", "snap_value", "snap_rename"} =>
            Loaded(datFile) = Loaded(h.prevDat)

\* C7 (SpecRT): for every Store and every prior content of data.dat, a completed
\* saveSnapshot followed by loadSnapshot into a fresh Store yields the Store that
\* was encoded.
C7_RoundTrip ==
    (h.recovered /\ h.snapDone > 0) => db = h.snapDb

\* a reload of a snapshot that was written over a longer one: its tail is still
\* in data.dat
C7_Witness ==
    /\ h.recovered
    /\ h.snapDone > 0
    /\ db # EmptyDb
    /\ Len(datFile.data) > 2 + Cardinality(DOMAIN db)
    /\ datFile.data[Len(datFile.data)].k \notin DOMAIN db

\* C8 (SpecClose): a call of Close returns.
C8_CloseReturns == h.closing ~> (pc[Main] = "closed")

RECURSIVE LatestValue(_, _)
\* the value the most recent mutation of key in ops left: <<>> when it was a DEL
\* or when ops never mentions key
LatestValue(ops, key) ==
    IF Len(ops) = 0 THEN <<>>
    ELSE LET last == ops[Len(ops)]
         IN  IF last.key = key
             THEN (IF last.command = "DEL" THEN <<>> ELSE last.value)
             ELSE LatestValue(SubSeq(ops, 1, Len(ops) - 1), key)

\* C9 (SpecOp): after any sequence of SET/HMSET/DEL run through Operation on a
\* fresh Store, a GET returns without error the space-joined value of the most
\* recent SET/HMSET of its key, or the empty string when the key was never set or
\* was last deleted.
C9_LastWriteWins ==
    \A p \in Conns :
        cmd[p].command = "GET" =>
            /\ ~resp[p].err
            /\ resp[p].val = Join(LatestValue(h.ops, cmd[p].key))

\* a GET of a key that was set and then overwritten by an HMSET
C9_Witness ==
    /\ cmd["c1"] = RedisCommand("GET", "k1", <<>>, "c1")
    /\ Len(h.ops) = 2
    /\ h.ops[1] = RedisCommand("SET", "k1", <<"b">>, "c1")
    /\ h.ops[2] = RedisCommand("HMSET", "k1", <<"a", "b">>, "c1")
    /\ resp["c1"].val = <<"a", SP, "b">>

KnownCommands == {"PING", "GET", "SET", "HMSET", "DEL", "SUBSCRIBE", "PUBLISH"}

\* C10 (SpecOp): a call of Operation with a command tag outside the switch, with
\* walEnabled true or false, returns an error and leaves the Store, the
\* subscribers and data.wal as they were.
C10_UnknownCommand ==
    [][cmd'["c1"].command \notin KnownCommands =>
          /\ resp'["c1"].err
          /\ db' = db
          /\ walFile' = walFile
          /\ subscribers' = subscribers]_vars

\* an unknown tag was dispatched with walEnabled = true on a Store and a WAL that
\* hold something
C10_Witness ==
    /\ cmd["c1"].command = "FOO"
    /\ walEn["c1"]
    /\ resp["c1"].err
    /\ db # EmptyDb
    /\ walFile # <<>>

\* C11 (SpecReplay): for every data.wal of SET/HMSET/DEL records, replaying it
\* a second time with walEnabled = false on the Store the first replay built
\* from empty ends in the same Store; and a DEL of a key the Store does not hold
\* leaves the Store as it is.
C11_ReplayIdempotent ==
    /\ [](h.passes = 2 => db = h.once)
    /\ [][(cmd'[Main].command = "DEL" /\ scanner' # scanner /\ cmd'[Main].key \notin DOMAIN db)
            => db' = db]_vars

\* both replays are done on a data.wal that begins with a DEL (of an absent key
\* in the first replay) and leaves a non-empty Store
C11_Witness ==
    /\ h.passes = 2
    /\ pc[Main] = "replay"
    /\ db # EmptyDb
    /\ Len(ScanLines(walFile)) = MaxRecs
    /\ parse(ScanLines(walFile)[1], NoConn).cmd.command = "DEL"
    /\ parse(ScanLines(walFile)[1], NoConn).cmd.key \in DOMAIN db

\* the tasks of the served system: the connections and the snapshot goroutine
Workers == Conns \cup {Snap}

\* task p holds the Store lock, as its writer or as a reader
HoldsStore(p) == lock.w = p \/ p \in lock.r

\* task p is inside a Lock() of the Store lock that has not returned
WantsWrite(p) ==
    \/ pc[p] = "store_lock" /\ cmd[p].command # "GET"
    \/ pc[p] = "load_lock"

\* task p stands at a lock acquisition that cannot return in this state; an
\* RLock also waits behind a Lock that another task has pending (sync.RWMutex
\* lets no new reader pass a waiting writer)
Blocked(p) ==
    \/ pc[p] \in {"wal_lock", "snap_wal_lock"} /\ walLock # NoProc
    \/ WantsWrite(p) /\ ~CanLock
    \/ /\ pc[p] = "snap_rlock" \/ (pc[p] = "store_lock" /\ cmd[p].command = "GET")
       /\ ~CanRLock \/ \E q \in Procs \ {p} : WantsWrite(q) /\ ~CanLock

\* C12 (Spec): while main serves, the connections and the snapshot goroutine are
\* never all blocked on the Store lock or the WAL lock; a task that takes the WAL
\* lock while it holds the Store lock is inside saveSnapshot; and no task takes
\* the Store lock while it holds the WAL lock.
C12_NoLockDeadlock ==
    /\ [](pc[Main] = "serving" => \E p \in Workers : ~Blocked(p))
    /\ [][\A p \in Procs :
            /\ (walLock' = p /\ walLock # p /\ HoldsStore(p)) => pc[p] = "snap_wal_lock"
            /\ ((lock'.w = p /\ lock.w # p) \/ (p \in lock'.r /\ p \notin lock.r))
                   => (walLock # p /\ walLock' # p)]_vars

\* the snapshot goroutine holds the Store lock and waits for the WAL lock, which
\* one connection holds for its append, while the other connection waits for the
\* Store lock
C12_Witness ==
    /\ pc[Main] = "serving"
    /\ pc[Snap] = "snap_wal_lock"
    /\ Snap \in lock.r
    /\ walLock = "c1"
    /\ pc["c2"] = "store_lock"
    /\ cmd["c2"].command = "SET"
    /\ Blocked(Snap) /\ Blocked("c2") /\ ~Blocked("c1")

\* C13 (SpecLoad): for every content of data.dat, a started loadSnapshot
\* returns and main goes on to serve.
C13_RecoveryTerminates == (pc[Main] = "load_open") ~> (pc[Main] = "serving")

\* data.wal holds the record appendToWAL writes for command c
HasRecord(file, c) ==
    \E i \in DOMAIN ScanLines(file) : Append(ScanLines(file)[i], LF) = WalEntry(c)

\* C14 (Spec): while a live SET, HMSET or DEL stands between its WAL append and
\* its Store mutation, its record is in data.wal, so that a crash there leaves
\* the operation in the WAL.
C14_AppendBeforeApply ==
    \A p \in InFlight : HasRecord(walFile, cmd[p])

\* C15 (SpecFail): data.wal is shortened only by a saveSnapshot run whose
\* os.OpenFile, Encode and os.Rename all succeeded.
C15_TruncateAfterCommit ==
    [][Len(walFile') < Len(walFile) => h.renamed]_vars

\* C16 (SpecOp): a call of Operation appends exactly its record to data.wal when
\* walEnabled is true and the command is SET, HMSET or DEL; with walEnabled
\* false, or for any other command, it leaves data.wal as it was.
C16_DurabilityGate ==
    [][IF walEn'["c1"] /\ cmd'["c1"].command \in {"SET", "HMSET", "DEL"}
       THEN walFile' = walFile \o WalEntry(cmd'["c1"])
       ELSE walFile' = walFile]_vars

\* a SET dispatched with walEnabled = false changed the Store after a logged
\* command; data.wal holds the one record of the logged command only
C16_Witness ==
    /\ Len(h.ops) = 2
    /\ cmd["c1"] = h.ops[2]
    /\ cmd["c1"].command = "SET"
    /\ ~walEn["c1"]
    /\ cmd["c1"].key \in DOMAIN db /\ db[cmd["c1"].key] = cmd["c1"].value
    /\ Len(ScanLines(walFile)) = 1
    /\ ~HasRecord(walFile, cmd["c1"])

\* the steps of saveSnapshot from the return of RLock to the end of Encode
Encoding == {"snap_open", "snap_types", "snap_value"}
\* the steps of saveSnapshot after Encode, up to its return
Encoded == {"snap_rename", "snap_wal_lock", "snap_truncate"}

\* the tasks inside set or del, or inside loadSnapshot, past Lock()
WritersInside ==
    {p \in Procs : \/ pc[p] = "store_cs" /\ cmd[p].command # "GET"
                   \/ p = Main /\ pc[p] \in {"load_decode", "load_scan"}}

\* the tasks inside get or saveSnapshot, past RLock()
ReadersInside ==
    {p \in Procs : \/ pc[p] = "store_cs" /\ cmd[p].command = "GET"
                   \/ pc[p] \in Encoding \cup Encoded}

\* C17 (Spec): while saveSnapshot is between its RLock and the end of Encode no
\* step changes the mapping, and what it has encoded is the mapping as it still
\* stands; and never are two writers, or a writer and a reader, inside the
\* Store's critical section together.
C17_ConsistentSnapshot ==
    /\ [][(pc[Snap] \in Encoding /\ pc'[Snap] \in Encoding \cup Encoded) => db' = db]_vars
    /\ [](pc[Snap] \in Encoded => (Loaded(datFile) = db /\ h.snapDb = db))
    /\ [](Cardinality(WritersInside) <= 1 /\ (WritersInside # {} => ReadersInside = {}))

\* saveSnapshot is about to encode a non-empty Store while one connection reads
\* it and another waits to write it
C17_Witness ==
    /\ pc[Snap] = "snap_value"
    /\ db # EmptyDb
    /\ pc["c1"] = "store_lock" /\ cmd["c1"].command = "SET"
    /\ pc["c2"] = "store_cs" /\ cmd["c2"].command = "GET"
    /\ ReadersInside = {Snap, "c2"}

\* the connections running a live SET, HMSET or DEL whose WAL append failed
AppendFailed ==
    {p \in Conns : /\ p \in h.failed
                   /\ ShouldLog(cmd[p], walEn[p])
                   /\ pc[p] \in {"store_lock", "store_cs", "reply"}}

\* C18 (SpecFail): a live SET, HMSET or DEL whose WAL append failed goes on to the
\* Store, is applied there and is answered OK; main keeps serving and the
\* connection returns to read its next request.
C18_AvailabilityOverDurability ==
    /\ [](\A p \in AppendFailed :
             pc[p] = "reply" => resp[p] = [val |-> <<"OK">>, err |-> FALSE])
    /\ [][\A p \in Conns :
            /\ (pc[p] = "wal_write" /\ pc'[p] # "wal_write" /\ walFile' = walFile)
                  => pc'[p] = "store_lock"
            /\ (p \in AppendFailed /\ pc[p] = "store_cs" /\ pc'[p] # "store_cs")
                  => db' = (IF cmd[p].command = "DEL" THEN del(db, cmd[p].key)
                            ELSE set(db, cmd[p].key, cmd[p].value))
            /\ (p \in AppendFailed /\ pc[p] = "reply") => pc'[p] \in {"reply", "read"}]_vars
    /\ [](pc[Main] = "serving")

\* a SET whose append failed has been applied and answered OK, and data.wal is
\* empty
C18_Witness ==
    /\ "c1" \in AppendFailed
    /\ pc["c1"] = "reply"
    /\ cmd["c1"].command = "SET"
    /\ resp["c1"].val = <<"OK">>
    /\ db = set(EmptyDb, cmd["c1"].key, cmd["c1"].value)
    /\ walFile = <<>>
    /\ h.nSnaps = 0

\* C19 (SpecLoad): when data.dat is absent or does not decode, loadSnapshot
\* returns, main serves, and the Store it serves is empty.
C19_BadSnapshotEmptyStore ==
    (pc[Main] = "serving" /\ (~datFile.exists \/ Decode(datFile.data).err)) => db = EmptyDb

====
